---- MODULE Spec2Model ----
(***************************************************************************)
(* Model of the asset-preparation scripts of rust-ui:                      *)
(*   scripts/sprite_atlas.py  generate_atlas and its click entry point     *)
(*   scripts/codegen.py       RustModule, RustSimpleEnum and main          *)
(*   scripts/test_codegen.py  the enum the unit test renders               *)
(* Python str values are TLA+ strings (Len, \o and SubSeq act on them as   *)
(* len, + and slicing do); Python lists are sequences, so the zero-based   *)
(* index i of the source is position i + 1 here.                           *)
(***************************************************************************)
EXTENDS Integers, Sequences, FiniteSets, TLC

VARIABLES
    script,      \* which program runs: "sprite_atlas", "codegen", "test_codegen" or "render"
    pc,          \* position of the running script
    exc,         \* exception that left the entry point uncaught, or "none"
    stdout,      \* lines written by click.echo / print, in order
    png_files,   \* result of glob.glob(<dir>/*.png): files with their image header
    grid_cols,   \* --grid-cols
    tile_size,   \* --tile-size
    output,      \* --output
    images,      \* generate_atlas: list of (name, img)
    atlas,       \* generate_atlas: the canvas made by Image.new, or NoAtlas
    i,           \* generate_atlas: number of loop iterations completed
    csv_data,    \* generate_atlas: manifest rows appended so far
    pastes,      \* generate_atlas: the atlas.paste calls made so far
    files,       \* files written to storage, in order
    item,        \* the RustItem under render
    item0,       \* the item as constructed
    rendered     \* results of the to_string() calls made so far

vars == <<script, pc, exc, stdout, png_files, grid_cols, tile_size, output,
          images, atlas, i, csv_data, pastes, files, item, item0, rendered>>

atlasVars == <<images, atlas, i, csv_data, pastes, files>>
inputVars == <<script, png_files, grid_cols, tile_size, output>>
itemVars == <<item, item0, rendered>>

----------------------------------------------------------------------------
(* Bounds of the model *)

MaxImages == 3
MaxDim == 2
MaxCols == 2
MaxTile == 2
MaxVariants == 2
MaxDerives == 2
MaxMembers == 2
MaxCalls == 2

(* Program constants *)

DefaultGridCols == 10
DefaultTileSize == 40
DefaultOutput == "atlas"
IconDir == "../assets/icons"
NoPngMessage == "No PNG files found in the directory."

----------------------------------------------------------------------------
(* Python helpers *)

Min(a, b) == IF a <= b THEN a ELSE b

\* s[k] for a one-based position k of the str s
CharAt(s, k) == SubSeq(s, k, k)

\* position of the last occurrence of character c in s, 0 if there is none
LastIndexOf(s, c) ==
    LET at == { k \in 1..Len(s) : CharAt(s, k) = c }
    IN  IF at = {} THEN 0 ELSE CHOOSE k \in at : \A q \in at : q <= k

\* os.path.join(directory, name)
PathJoin(directory, name) == directory \o "/" \o name

\* os.path.basename(f): what follows the last "/"
Basename(f) == SubSeq(f, LastIndexOf(f, "/") + 1, Len(f))

\* os.path.splitext(b)[0]: b up to its last ".", all of b when the only dot leads it
SplitextRoot(b) ==
    LET d == LastIndexOf(b, ".")
    IN  IF d <= 1 THEN b ELSE SubSeq(b, 1, d - 1)

\* s[:-n] of a str
DropLast(s, n) == IF Len(s) <= n THEN "" ELSE SubSeq(s, 1, Len(s) - n)

----------------------------------------------------------------------------
(* Inputs *)

IconNames == <<"Angle", "Coincident", "Colinear", "Distance", "a.b", "Equal",
               "Fix", "Horizontal", "Parallel", "Perpendicular", "Tangent",
               "Vertical">>

PngFile(directory, name, w, h) ==
    [path |-> PathJoin(directory, name \o ".png"), width |-> w, height |-> h]

Reverse(s) == [k \in 1..Len(s) |-> s[Len(s) + 1 - k]]

\* the orders glob may list the first n icons in
NameOrders(n) ==
    LET fwd == SubSeq(IconNames, 1, n) IN {fwd, Reverse(fwd)}

\* directory listings of up to MaxImages images of up to MaxDim x MaxDim pixels
Listings(directory) ==
    UNION { UNION { { [k \in 1..n |-> PngFile(directory, names[k], dims[k][1], dims[k][2])]
                      : dims \in [1..n -> (1..MaxDim) \X (1..MaxDim)] }
                    : names \in NameOrders(n) }
            : n \in 0..Min(MaxImages, Len(IconNames)) }

\* the directory of the documented scenario: every icon, 32 x 32 pixels each
FullListing(directory) ==
    [k \in 1..Len(IconNames) |-> PngFile(directory, IconNames[k], 32, 32)]

NoAtlas == [width |-> -1, height |-> -1]
NoItem == [kind |-> "none"]

\* RustSimpleEnum.__init__ (derives defaults to the empty list), RustModule.__init__
RustSimpleEnum(name, variants, derives) ==
    [kind |-> "enum", name |-> name, variants |-> variants, derives |-> derives]
RustModule(members) == [kind |-> "module", members |-> members]

SeqsUpTo(S, n) == UNION { [1..k -> S] : k \in 0..n }

EnumNames == {"Icon", "E"}
Idents == {"A", "Bc"}
Tags == {"Eq", "D", ""}

Enums ==
    { RustSimpleEnum(n, v, d) :
        n \in EnumNames, v \in SeqsUpTo(Idents, MaxVariants), d \in SeqsUpTo(Tags, MaxDerives) }

ModuleLeaves ==
    { RustSimpleEnum("E", <<"A">>, <<"D">>),
      RustSimpleEnum("Icon", <<"A", "Bc">>, <<"Eq", "D">>) }
InnerModules == { RustModule(m) : m \in SeqsUpTo(ModuleLeaves, MaxMembers) }
Modules == { RustModule(m) : m \in SeqsUpTo(ModuleLeaves \cup InnerModules, MaxMembers) }

Items == Enums \cup Modules

AtlasIdle ==
    /\ images = <<>>
    /\ atlas = NoAtlas
    /\ i = 0
    /\ csv_data = <<>>
    /\ pastes = <<>>
    /\ files = <<>>

ItemIdle ==
    /\ item = NoItem
    /\ item0 = NoItem
    /\ rendered = <<>>

OutputNames == {DefaultOutput, "build/icons"}

InitSpriteAtlas ==
    /\ script = "sprite_atlas"
    /\ \/ /\ png_files \in Listings("icons")
          /\ grid_cols \in 0..MaxCols
          /\ tile_size \in 1..MaxTile
          /\ output = DefaultOutput
       \/ /\ png_files = FullListing("icons")
          /\ grid_cols = DefaultGridCols
          /\ tile_size = DefaultTileSize
          /\ output \in OutputNames
    /\ AtlasIdle
    /\ ItemIdle

CliDefaults ==
    /\ grid_cols = DefaultGridCols
    /\ tile_size = DefaultTileSize
    /\ output = DefaultOutput

\* codegen.main takes no argument: it lists IconDir
InitCodegen ==
    /\ script = "codegen"
    /\ png_files \in {l \in Listings(IconDir) :
                        \A k \in 1..Len(l) : l[k].width = 1 /\ l[k].height = 1}
                     \cup {FullListing(IconDir)}
    /\ CliDefaults
    /\ AtlasIdle
    /\ ItemIdle

\* a RustItem is constructed and rendered by a caller
InitRender ==
    /\ script = "render"
    /\ png_files = <<>>
    /\ CliDefaults
    /\ AtlasIdle
    /\ item \in Items
    /\ item0 = item
    /\ rendered = <<>>

InitTest ==
    /\ script = "test_codegen"
    /\ png_files = <<>>
    /\ CliDefaults
    /\ AtlasIdle
    /\ ItemIdle

Init ==
    /\ pc = "start"
    /\ exc = "none"
    /\ stdout = <<>>
    /\ \/ InitSpriteAtlas
       \/ InitCodegen
       \/ InitRender
       \/ InitTest

----------------------------------------------------------------------------
(* sprite_atlas.py: generate_atlas *)

\* lines 10-12: no PNG file, raise FileNotFoundError
AtlasRaise ==
    /\ script = "sprite_atlas"
    /\ pc = "start"
    /\ png_files = <<>>
    /\ pc' = "raised"
    /\ UNCHANGED <<exc, stdout, inputVars, atlasVars, itemVars>>

\* lines 14-18: open every file, name it by its base name without extension
OpenImage(f) ==
    [name |-> SplitextRoot(Basename(f.path)), width |-> f.width, height |-> f.height]

AtlasLoad ==
    /\ script = "sprite_atlas"
    /\ pc = "start"
    /\ png_files # <<>>
    /\ images' = [k \in 1..Len(png_files) |-> OpenImage(png_files[k])]
    /\ pc' = "loaded"
    /\ UNCHANGED <<exc, stdout, inputVars, atlas, i, csv_data, pastes, files, itemVars>>

\* the rows rounded down and not up
RowsRoundedDown(num_images, cols) == num_images \div cols

\* lines 20-23
Rows(num_images, cols) == (num_images + cols - 1) \div cols
AtlasWidth(cols, tile) == cols * tile
AtlasHeight(num_images, cols, tile) == Rows(num_images, cols) * tile

\* line 21 with grid_cols = 0: ZeroDivisionError, which main does not catch
AtlasDivideByZero ==
    /\ script = "sprite_atlas"
    /\ pc = "loaded"
    /\ grid_cols = 0
    /\ pc' = "crashed"
    /\ exc' = "ZeroDivisionError"
    /\ UNCHANGED <<stdout, inputVars, atlasVars, itemVars>>

\* lines 20-27: size and allocate the canvas
AtlasAllocate ==
    /\ script = "sprite_atlas"
    /\ pc = "loaded"
    /\ grid_cols # 0
    /\ atlas' = [width |-> AtlasWidth(grid_cols, tile_size),
                 height |-> AtlasHeight(Len(images), grid_cols, tile_size)]
    /\ csv_data' = <<>>
    /\ pc' = "loop"
    /\ UNCHANGED <<exc, stdout, inputVars, images, i, pastes, files, itemVars>>

\* the column taken from the quotient and not from the remainder
CellXFromQuotient(idx, cols, tile) == (idx \div cols) * tile

\* lines 29-32: the cell of the image at zero-based index idx
CellX(idx, cols, tile) == (idx % cols) * tile
CellY(idx, cols, tile) == (idx \div cols) * tile

\* the offset taken with the wrong sign
PasteXWrongSign(idx, cols, tile, w) == CellX(idx, cols, tile) + ((w - tile) \div 2)

\* lines 35-38: where the image is pasted
PasteX(idx, cols, tile, w) == CellX(idx, cols, tile) + ((tile - w) \div 2)
PasteY(idx, cols, tile, h) == CellY(idx, cols, tile) + ((tile - h) \div 2)

\* line 41
CsvRow(idx, img, cols, tile) ==
    <<img.name, CellX(idx, cols, tile), CellY(idx, cols, tile), tile, tile>>

\* lines 28-41: one iteration of the loop over enumerate(images)
AtlasPaste ==
    /\ script = "sprite_atlas"
    /\ pc = "loop"
    /\ i < Len(images)
    /\ LET img == images[i + 1]
       IN  /\ pastes' = Append(pastes,
                   [name |-> img.name,
                    x |-> PasteX(i, grid_cols, tile_size, img.width),
                    y |-> PasteY(i, grid_cols, tile_size, img.height),
                    width |-> img.width, height |-> img.height])
           /\ csv_data' = Append(csv_data, CsvRow(i, img, grid_cols, tile_size))
    /\ i' = i + 1
    /\ UNCHANGED <<pc, exc, stdout, inputVars, images, atlas, files, itemVars>>

\* the save inside the loop body: it runs after the first iteration
AtlasSaveInLoop ==
    /\ script = "sprite_atlas"
    /\ pc = "loop"
    /\ i >= 1
    /\ files' = Append(files, [path |-> output \o ".png", image |-> atlas,
                               rows |-> <<>>])
    /\ pc' = "png_saved"
    /\ UNCHANGED <<exc, stdout, inputVars, images, atlas, i, csv_data, pastes, itemVars>>

\* lines 43, 46: atlas.save(f"{output}.png")
AtlasSave ==
    /\ script = "sprite_atlas"
    /\ pc = "loop"
    /\ i = Len(images)
    /\ files' = Append(files, [path |-> output \o ".png", image |-> atlas,
                               rows |-> <<>>])
    /\ pc' = "png_saved"
    /\ UNCHANGED <<exc, stdout, inputVars, images, atlas, i, csv_data, pastes, itemVars>>

CsvHeader == <<"name", "x", "y", "width", "height">>

\* lines 44, 47-50: the header row, then the manifest rows
AtlasWriteCsv ==
    /\ script = "sprite_atlas"
    /\ pc = "png_saved"
    /\ files' = Append(files, [path |-> output \o ".csv", image |-> NoAtlas,
                               rows |-> <<CsvHeader>> \o csv_data])
    /\ pc' = "returned"
    /\ UNCHANGED <<exc, stdout, inputVars, images, atlas, i, csv_data, pastes, itemVars>>

(* sprite_atlas.py: main *)

SavedMessage(out) ==
    "Atlas saved to " \o out \o ".png" \o ", CSV saved to " \o out \o ".csv"

\* lines 67-69
AtlasMainEcho ==
    /\ script = "sprite_atlas"
    /\ pc = "returned"
    /\ stdout' = Append(stdout, SavedMessage(output))
    /\ pc' = "done"
    /\ UNCHANGED <<exc, inputVars, atlasVars, itemVars>>

\* lines 70-71
AtlasMainExcept ==
    /\ script = "sprite_atlas"
    /\ pc = "raised"
    /\ stdout' = Append(stdout, NoPngMessage)
    /\ pc' = "done"
    /\ UNCHANGED <<exc, inputVars, atlasVars, itemVars>>

----------------------------------------------------------------------------
(* codegen.py: RustModule.to_string and RustSimpleEnum.to_string *)

\* lines 32-34: for derive in self.derives: output += derive; output += ", "
RECURSIVE DeriveLoop(_, _, _)
DeriveLoop(out, derives, k) ==
    IF k > Len(derives) THEN out
    ELSE DeriveLoop((out \o derives[k]) \o ", ", derives, k + 1)

\* only the space of the separator trimmed
TrimSeparatorShort(out) == DropLast(out, 1)

\* line 35: output = output[:-2:]
TrimSeparator(out) == DropLast(out, 2)

\* the variants visited last to first
RECURSIVE VariantLoopReversed(_, _, _)
VariantLoopReversed(out, variants, k) ==
    IF k > Len(variants) THEN out
    ELSE VariantLoopReversed(out \o ("    " \o variants[Len(variants) + 1 - k] \o ",\n"),
                             variants, k + 1)

\* lines 39-40: for var in self.variants: output += f"    {var},\n"
RECURSIVE VariantLoop(_, _, _)
VariantLoop(out, variants, k) ==
    IF k > Len(variants) THEN out
    ELSE VariantLoop(out \o ("    " \o variants[k] \o ",\n"), variants, k + 1)

\* lines 30-43
EnumToString(self) ==
    LET header == TrimSeparator(DeriveLoop("#[derive(", self.derives, 1)) \o ")]\n"
        opened == header \o ("pub enum " \o self.name \o " {\n")
    IN  VariantLoop(opened, self.variants, 1) \o "}"

RECURSIVE to_string(_)
RECURSIVE MemberLoop(_, _, _)

\* the newline after each member and not before it
MemberLoopNewlineAfter(out, members, k) ==
    IF k > Len(members) THEN out
    ELSE MemberLoop((out \o to_string(members[k])) \o "\n", members, k + 1)

\* lines 17-19: for member in self.members: output += "\n"; output += member.to_string()
MemberLoop(out, members, k) ==
    IF k > Len(members) THEN out
    ELSE MemberLoop((out \o "\n") \o to_string(members[k]), members, k + 1)

\* lines 15-21
ModuleToString(self) == MemberLoop("", self.members, 1) \o ""

\* dispatch on the class of the item
to_string(self) ==
    IF self.kind = "enum" THEN EnumToString(self) ELSE ModuleToString(self)

\* a to_string that consumes self.derives while it walks it
CallToStringConsuming ==
    /\ script = "render"
    /\ pc = "start"
    /\ Len(rendered) < MaxCalls
    /\ rendered' = Append(rendered, to_string(item))
    /\ item' = IF item.kind = "enum" THEN [item EXCEPT !.derives = <<>>] ELSE item
    /\ UNCHANGED <<pc, exc, stdout, inputVars, atlasVars, item0>>

\* a caller renders the item it holds; to_string assigns to no field of self
CallToString ==
    /\ script = "render"
    /\ pc = "start"
    /\ Len(rendered) < MaxCalls
    /\ rendered' = Append(rendered, to_string(item))
    /\ item' = item
    /\ UNCHANGED <<pc, exc, stdout, inputVars, atlasVars, item0>>

(* codegen.py: main *)

IconDerives == <<"Hash", "Clone", "FromStr", "PartialEq", "Eq", "Debug", "Default">>

\* lines 49-51: no PNG file, raise FileNotFoundError; nothing in main catches it
CodegenRaise ==
    /\ script = "codegen"
    /\ pc = "start"
    /\ png_files = <<>>
    /\ exc' = "FileNotFoundError"
    /\ pc' = "crashed"
    /\ UNCHANGED <<stdout, inputVars, atlasVars, itemVars>>

\* str(list of str) as print shows it
RECURSIVE ReprLoop(_, _, _)
ReprLoop(out, names, k) ==
    IF k > Len(names) THEN out
    ELSE ReprLoop(out \o (IF k = 1 THEN "" ELSE ", ") \o ("'" \o names[k] \o "'"),
                  names, k + 1)
PyListRepr(names) == ReprLoop("[", names, 1) \o "]"

\* line 53: names = [os.path.basename(x)[:-4] for x in png_files]
IconNamesOf(paths) == [k \in 1..Len(paths) |-> DropLast(Basename(paths[k].path), 4)]

\* lines 53-68: print the names, build the SpriteIcon enum
CodegenBuild ==
    /\ script = "codegen"
    /\ pc = "start"
    /\ png_files # <<>>
    /\ stdout' = Append(stdout, PyListRepr(IconNamesOf(png_files)))
    /\ item' = RustSimpleEnum("SpriteIcon", IconNamesOf(png_files), IconDerives)
    /\ item0' = item'
    /\ pc' = "built"
    /\ UNCHANGED <<exc, inputVars, atlasVars, rendered>>

\* line 70: print(icon_enum.to_string())
CodegenPrint ==
    /\ script = "codegen"
    /\ pc = "built"
    /\ rendered' = Append(rendered, to_string(item))
    /\ stdout' = Append(stdout, to_string(item))
    /\ item' = item
    /\ pc' = "done"
    /\ UNCHANGED <<exc, inputVars, atlasVars, item0>>

(* test_codegen.py *)

TestSpriteKey ==
    RustSimpleEnum("Icon", <<"Angle", "Coincident", "Colinear", "Distance">>, IconDerives)

TestExpected ==
    "#[derive(Hash, Clone, FromStr, PartialEq, Eq, Debug, Default)]\npub enum Icon {\n    Angle,\n    Coincident,\n    Colinear,\n    Distance,\n}"

\* lines 5-23: construct sprite_key
TestConstruct ==
    /\ script = "test_codegen"
    /\ pc = "start"
    /\ item' = TestSpriteKey
    /\ item0' = TestSpriteKey
    /\ pc' = "built"
    /\ UNCHANGED <<exc, stdout, inputVars, atlasVars, rendered>>

\* line 33: assert sprite_key.to_string() == expected
TestAssert ==
    /\ script = "test_codegen"
    /\ pc = "built"
    /\ rendered' = Append(rendered, to_string(item))
    /\ item' = item
    /\ IF to_string(item) = TestExpected
         THEN pc' = "done" /\ exc' = exc
         ELSE pc' = "crashed" /\ exc' = "AssertionError"
    /\ UNCHANGED <<stdout, inputVars, atlasVars, item0>>

----------------------------------------------------------------------------

Next ==
    \/ AtlasRaise
    \/ AtlasLoad
    \/ AtlasDivideByZero
    \/ AtlasAllocate
    \/ AtlasPaste
    \/ AtlasSave
    \/ AtlasWriteCsv
    \/ AtlasMainEcho
    \/ AtlasMainExcept
    \/ CallToString
    \/ CodegenRaise
    \/ CodegenBuild
    \/ CodegenPrint
    \/ TestConstruct
    \/ TestAssert

Spec == Init /\ [][Next]_vars

----------------------------------------------------------------------------
(* Vocabulary of the properties *)

InAtlas == script = "sprite_atlas"
ValidGrid == grid_cols >= 1 /\ tile_size >= 1
PackingComplete == InAtlas /\ pc \in {"png_saved", "returned", "done"}

\* the smallest r with r * c >= n
CeilDiv(n, c) == CHOOSE r \in 0..n : r * c >= n /\ (r - 1) * c < n

\* the file of directory "icons" an image name was taken from
FileOfName(name) == "icons/" \o name \o ".png"

\* the lines of a text, split at every newline
NewlinesOf(s) == { k \in 1..Len(s) : CharAt(s, k) = "\n" }
NthNewline(s, n) ==
    IF n = 0 THEN 0
    ELSE IF n > Cardinality(NewlinesOf(s)) THEN Len(s) + 1
    ELSE CHOOSE p \in NewlinesOf(s) :
             Cardinality({ q \in NewlinesOf(s) : q < p }) = n - 1
SplitLines(s) ==
    [ n \in 1..(Cardinality(NewlinesOf(s)) + 1) |->
        SubSeq(s, NthNewline(s, n - 1) + 1, NthNewline(s, n) - 1) ]

\* the elements of a list of str joined by a separator
RECURSIVE Join(_, _)
Join(strs, sep) ==
    IF strs = <<>> THEN ""
    ELSE IF Len(strs) = 1 THEN strs[1]
    ELSE strs[1] \o sep \o Join(Tail(strs), sep)

RECURSIVE VariantLines(_)
VariantLines(vs) ==
    IF vs = <<>> THEN "" ELSE "    " \o Head(vs) \o ",\n" \o VariantLines(Tail(vs))

Distinct(seq) == \A a, b \in 1..Len(seq) : a # b => seq[a] # seq[b]

IsEnum(it) == it.kind = "enum"
IsModule(it) == it.kind = "module"

----------------------------------------------------------------------------
(* Properties of sprite_atlas.py *)

\* C1: with grid_cols >= 1 and tile_size >= 1, manifest row i (zero-based) is
\* (name of the i-th input image, (i mod grid_cols) * tile_size,
\* (i div grid_cols) * tile_size, tile_size, tile_size), whatever the image's own
\* size; once all images are processed there is such a row for every image. With
\* 12 images, 10 columns and 40-pixel tiles, the row of index 10 is (0, 40, 40, 40).
C1_ManifestRows ==
    (InAtlas /\ ValidGrid) =>
        /\ \A k \in 1..Len(csv_data) :
              /\ k <= Len(png_files)
              /\ Len(csv_data[k]) = 5
              /\ FileOfName(csv_data[k][1]) = png_files[k].path
              /\ csv_data[k][2] = ((k - 1) % grid_cols) * tile_size
              /\ csv_data[k][3] = ((k - 1) \div grid_cols) * tile_size
              /\ csv_data[k][4] = tile_size
              /\ csv_data[k][5] = tile_size
        /\ PackingComplete => Len(csv_data) = Len(png_files)
        /\ (Len(png_files) = 12 /\ grid_cols = 10 /\ tile_size = 40
              /\ Len(csv_data) >= 11)
              => /\ csv_data[11][2] = 0
                 /\ csv_data[11][3] = 40
                 /\ csv_data[11][4] = 40
                 /\ csv_data[11][5] = 40

\* three images on two columns, the third one on the second row, and an image
\* smaller than its tile
C1_Witness ==
    /\ InAtlas /\ pc = "done"
    /\ grid_cols = 2 /\ tile_size = 2
    /\ Len(csv_data) = 3
    /\ csv_data[3][2] = 0 /\ csv_data[3][3] = 2
    /\ csv_data[2][2] = 2 /\ csv_data[2][3] = 0
    /\ images[3].width = 1

\* C2: with grid_cols >= 1, tile_size >= 1 and n >= 1 images the canvas is
\* grid_cols * tile_size wide and ceil(n / grid_cols) * tile_size high, one
\* manifest row is appended per loop iteration, and the finished manifest has
\* exactly n rows in the order of the input images. 12 images on 10 columns of
\* 40 pixels give a 400 x 80 canvas.
C2_CanvasAndManifestSize ==
    (InAtlas /\ ValidGrid /\ Len(png_files) >= 1) =>
        /\ atlas # NoAtlas =>
              /\ atlas.width = grid_cols * tile_size
              /\ atlas.height = CeilDiv(Len(png_files), grid_cols) * tile_size
        /\ pc \in {"loop", "png_saved", "returned", "done"} => atlas # NoAtlas
        /\ Len(csv_data) = i
        /\ [k \in 1..Len(csv_data) |-> FileOfName(csv_data[k][1])]
              = [k \in 1..Len(csv_data) |-> png_files[k].path]
        /\ PackingComplete => Len(csv_data) = Len(png_files)
        /\ \A f \in 1..Len(files) :
              /\ files[f].image # NoAtlas =>
                    /\ files[f].image.width = grid_cols * tile_size
                    /\ files[f].image.height
                          = CeilDiv(Len(png_files), grid_cols) * tile_size
              /\ files[f].image = NoAtlas =>
                    /\ Len(files[f].rows) = Len(png_files) + 1
                    /\ SubSeq(files[f].rows, 2, Len(files[f].rows)) = csv_data
        /\ (Len(png_files) = 12 /\ grid_cols = 10 /\ tile_size = 40
              /\ atlas # NoAtlas)
              => atlas.width = 400 /\ atlas.height = 80

\* three images on two columns: a partly filled second row
C2_Witness ==
    /\ InAtlas /\ pc = "done"
    /\ Len(png_files) = 3 /\ grid_cols = 2 /\ tile_size = 2
    /\ atlas.width = 4 /\ atlas.height = 4
    /\ Len(files) = 2 /\ Len(files[2].rows) = 4

\* C3: with no PNG file generate_atlas raises before a canvas is allocated and
\* before any file is written, and main then prints exactly the no-PNG message and
\* not the success message. With at least one PNG, a file is written only after
\* every image was processed, and when packing completes both files are written.
C3_EmptyDirectoryAndOutputs ==
    InAtlas =>
        /\ png_files = <<>> =>
              /\ atlas = NoAtlas
              /\ files = <<>>
              /\ exc = "none"
              /\ pc \in {"start", "raised", "done"}
              /\ stdout = IF pc = "done" THEN <<NoPngMessage>> ELSE <<>>
        /\ png_files # <<>> =>
              /\ files # <<>> =>
                    /\ i = Len(png_files)
                    /\ Len(pastes) = Len(png_files)
                    /\ Len(csv_data) = Len(png_files)
                    /\ atlas # NoAtlas
              /\ pc \in {"returned", "done"} =>
                    /\ Len(files) = 2
                    /\ files[1].path = output \o ".png"
                    /\ files[2].path = output \o ".csv"
                    /\ files[1].image = atlas
                    /\ files[2].rows = <<CsvHeader>> \o csv_data
              /\ stdout = IF pc = "done" THEN <<SavedMessage(output)>> ELSE <<>>

\* the empty directory, after main has reported it
C3_Witness ==
    /\ InAtlas /\ png_files = <<>> /\ pc = "done"
    /\ stdout = <<NoPngMessage>>
    /\ files = <<>>

\* C4: in both entry points the FileNotFoundError raised when no PNG file is
\* found is caught and turned into a message; it never leaves the entry point.
C4_InputErrorCaught ==
    /\ exc # "FileNotFoundError"
    /\ (script \in {"sprite_atlas", "codegen"} /\ png_files = <<>>
          /\ pc \in {"done", "crashed"})
          => pc = "done" /\ stdout = <<NoPngMessage>>

\* C10: with grid_cols >= 1 and every image between 1 and tile_size pixels wide
\* and high, each pasted rectangle lies inside its own cell, each cell lies inside
\* the canvas, and the cells (hence the pasted rectangles) of distinct images do
\* not overlap.
RectsDisjoint(x1, y1, w1, h1, x2, y2, w2, h2) ==
    \/ x1 + w1 <= x2
    \/ x2 + w2 <= x1
    \/ y1 + h1 <= y2
    \/ y2 + h2 <= y1

AllFit ==
    \A k \in 1..Len(png_files) :
        /\ png_files[k].width \in 1..tile_size
        /\ png_files[k].height \in 1..tile_size

C10_PasteInsideOwnCell ==
    (InAtlas /\ ValidGrid /\ AllFit) =>
        /\ Len(pastes) = Len(csv_data)
        /\ \A k \in 1..Len(pastes) :
              LET p == pastes[k]
                  c == csv_data[k]
              IN  /\ p.width = png_files[k].width
                  /\ p.height = png_files[k].height
                  /\ c[2] <= p.x /\ p.x + p.width <= c[2] + tile_size
                  /\ c[3] <= p.y /\ p.y + p.height <= c[3] + tile_size
                  /\ 0 <= c[2] /\ c[2] + tile_size <= atlas.width
                  /\ 0 <= c[3] /\ c[3] + tile_size <= atlas.height
                  \* centred: the margins differ by at most one pixel
                  /\ (c[2] + tile_size - (p.x + p.width)) - (p.x - c[2]) \in {0, 1}
                  /\ (c[3] + tile_size - (p.y + p.height)) - (p.y - c[3]) \in {0, 1}
        /\ \A j, k \in 1..Len(pastes) :
              j # k =>
                 /\ RectsDisjoint(csv_data[j][2], csv_data[j][3], tile_size, tile_size,
                                  csv_data[k][2], csv_data[k][3], tile_size, tile_size)
                 /\ RectsDisjoint(pastes[j].x, pastes[j].y, pastes[j].width,
                                  pastes[j].height,
                                  pastes[k].x, pastes[k].y, pastes[k].width,
                                  pastes[k].height)

\* three fitting images pasted, one of them smaller than the tile in one direction
C10_Witness ==
    /\ InAtlas /\ ValidGrid /\ AllFit
    /\ Len(pastes) = 3 /\ grid_cols = 2 /\ tile_size = 2
    /\ pastes[3].width = 1 /\ pastes[3].height = 2
    /\ pastes[3].x = 0 /\ pastes[3].y = 2

----------------------------------------------------------------------------
(* Properties of codegen.py *)

StartsWith(s, prefix) ==
    Len(s) >= Len(prefix) /\ SubSeq(s, 1, Len(prefix)) = prefix

\* C5: for a non-empty list V of distinct variants and any derives, the text has
\* exactly len(V) variant lines between the line "pub enum <name> {" and the
\* closing "}", the k-th being four spaces, V[k] verbatim and a comma.
C5_VariantLines ==
    (IsEnum(item0) /\ item0.variants # <<>> /\ Distinct(item0.variants)) =>
        \A r \in 1..Len(rendered) :
            LET lines == SplitLines(rendered[r])
                V == item0.variants
            IN  /\ Len(lines) = Len(V) + 3
                /\ lines[2] = "pub enum " \o item0.name \o " {"
                /\ \A k \in 1..Len(V) : lines[2 + k] = "    " \o V[k] \o ","
                /\ lines[Len(V) + 3] = "}"

\* an enum of two distinct variants, rendered
C5_Witness ==
    /\ script = "render" /\ IsEnum(item0)
    /\ item0.variants = <<"Bc", "A">>
    /\ item0.derives = <<>>
    /\ Len(rendered) >= 1
    /\ SplitLines(rendered[1])[3] = "    Bc,"

\* C6: with no derives the header is still well formed: the text starts with the
\* line "#[derive()]" or has no header line at all.
C6_EmptyDerivesHeader ==
    (IsEnum(item0) /\ item0.derives = <<>>) =>
        \A r \in 1..Len(rendered) :
            \/ SplitLines(rendered[r])[1] = "#[derive()]"
            \/ StartsWith(rendered[r], "pub enum ")

\* C7: for non-empty derives D the first line is "#[derive(" + ", ".join(D) + ")]"
\* and the whole text is that line, "pub enum <name> {", the variant lines and
\* "}" without a trailing newline; the unit test's enum renders to its expected
\* literal.
C7_DeriveHeader ==
    /\ (IsEnum(item0) /\ item0.derives # <<>>) =>
          \A r \in 1..Len(rendered) :
              /\ SplitLines(rendered[r])[1]
                    = "#[derive(" \o Join(item0.derives, ", ") \o ")]"
              /\ rendered[r]
                    = "#[derive(" \o Join(item0.derives, ", ") \o ")]\n"
                      \o "pub enum " \o item0.name \o " {\n"
                      \o VariantLines(item0.variants) \o "}"
    /\ (script = "test_codegen" /\ pc # "start" /\ pc # "built") =>
          /\ pc = "done" /\ exc = "none"
          /\ rendered = <<TestExpected>>

\* a single one-character tag, and two tags
C7_Witness ==
    /\ script = "render" /\ IsEnum(item0)
    /\ item0.derives = <<"D", "Eq">>
    /\ item0.variants = <<"A">>
    /\ item0.name = "E"
    /\ rendered = <<"#[derive(D, Eq)]\npub enum E {\n    A,\n}">>

\* C8: a module renders to "" when it has no member and otherwise to the
\* concatenation, in member order, of a newline and the member's text, also when
\* members are modules themselves.
RECURSIVE ExpectedText(_)
RECURSIVE ExpectedMembers(_)
ExpectedMembers(members) ==
    IF members = <<>> THEN ""
    ELSE "\n" \o ExpectedText(Head(members)) \o ExpectedMembers(Tail(members))
ExpectedText(it) ==
    IF IsEnum(it) THEN EnumToString(it) ELSE ExpectedMembers(it.members)

C8_ModuleConcatenation ==
    IsModule(item0) =>
        \A r \in 1..Len(rendered) :
            /\ rendered[r] = ExpectedMembers(item0.members)
            /\ item0.members = <<>> => rendered[r] = ""
            /\ Len(item0.members) = 2 =>
                  rendered[r] = "\n" \o to_string(item0.members[1])
                                \o "\n" \o to_string(item0.members[2])

\* a module of an enum and a module of one enum
C8_Witness ==
    /\ script = "render" /\ IsModule(item0)
    /\ Len(item0.members) = 2
    /\ IsEnum(item0.members[1])
    /\ IsModule(item0.members[2]) /\ Len(item0.members[2].members) = 1
    /\ Len(rendered) >= 1
    /\ rendered[1] = "\n#[derive(D)]\npub enum E {\n    A,\n}\n\n#[derive(D)]\npub enum E {\n    A,\n}"

====
